---- MODULE Spec2Model ----
(***************************************************************************)
(* Job registry / queue worker (CrawlJobService), run orchestrator         *)
(* (CrawlService.crawl + BaseCrawler.crawl) and SSE transport bridge        *)
(* (CrawlController.handleCrawlStream) of crawl-be.                         *)
(*                                                                         *)
(* Node runs one thread.  A macrotask (an HTTP request, an I/O completion,  *)
(* a timer) runs to completion and is followed by the drain of the          *)
(* microtask queue (the continuations of settled promises).  The actions    *)
(* below are the synchronous segments of the code between two awaits;       *)
(* `micro` is the microtask queue and `creating` the createJob call frame   *)
(* that is on the stack.  A new macrotask starts only when both are empty.  *)
(***************************************************************************)
EXTENDS Integers, Sequences, FiniteSets, TLC

\* ---------------------------------------------------------------- bounds
MaxJobs == 3
MaxStreams == 1
MaxClock == 1
MaxAttempts == 2
MaxHandlerEvents == 1
MaxAbandoned == 1
MaxRequests == 2
MaxWrites == 1
MaxCalls == 1

VARIABLES
    jobs,          \* CrawlJobService.jobs: jobId -> CrawlJobRecord (jobId = creation index)
    results,       \* CrawlJobService.results: jobId -> CrawlResultData
    queue,         \* CrawlJobService.queue
    isProcessing,  \* CrawlJobService.isProcessing
    loops,         \* activations of processQueue: call index -> [pc, cur]
    runs,          \* activations of BaseCrawler.crawl: owner -> run state
    micro,         \* microtask queue: continuations of settled promises
    creating,      \* jobId of the createJob call on the stack, 0 if none
    snapshots,     \* jobId -> the object createJob returned
    now,           \* Date.now()
    streams,       \* SSE connections: index -> state of `res`
    responses,     \* POST /crawl, /list, /detail: index -> state of `res`
    audit,         \* history switch, fixed by the initial state: whether a
                   \* run records in `thrown` that its handler has thrown
    calls          \* calls of CrawlService made with a collecting onStream:
                   \* index -> the events delivered and the outcome

vars == <<jobs, results, queue, isProcessing, loops, runs, micro, creating,
          snapshots, now, streams, responses, audit, calls>>

\* ---------------------------------------------------------------- values
Undefined == "<undefined>"
NoTime == -1
NoNumber == -1
NoId == <<"none", 0>>
Item == "item"
NoResult == "<no result>"

EmptyList == "[]"
ItemList == "[item]"

\* Array.prototype.length of a list result
length(result) == IF result = ItemList THEN 1 ELSE 0

Sites == {"googlemaps", "nosuchsite"}
Requests == [category : {"hotels"}, site : Sites]

\* HotelCrawler's three handler tables, over the sites of the model
siteHandlers == {"booking", "googlemaps"}
listHandlers == {"booking", "googlemaps"}
detailHandlers == {"booking"}

\* the three entry points of CrawlService / BaseCrawler
Modes == {"crawl", "list", "detail"}
HttpRequests == [category : {"hotels"}, site : {"booking", "googlemaps", "nosuchsite"}]

UnsupportedSiteError == "Unsupported site"
UnsupportedListSiteError == "Unsupported site for list crawl"
UnsupportedDetailSiteError == "Unsupported site for detail crawl"
FailedToCrawlError == "Failed to crawl data for site"
FailedToCrawlListError == "Failed to crawl list data for site"
FailedToCrawlDetailError == "Failed to crawl detail data for site"
UnauthorizedError == "Unauthorized"

JobOwner(j) == <<"job", j>>
StreamOwner(s) == <<"stream", s>>
HttpOwner(r) == <<"http", r>>
CallOwner(c) == <<"call", c>>

\* randomUUID() of BaseCrawler.crawl: one fresh value per activation
randomUUID(o) == <<"uuid-" \o o[1], o[2]>>

CrawlJobRecord(jobId, request) ==
    [jobId |-> jobId, status |-> "queued", progress |-> 0,
     currentStep |-> "Queued", createdAt |-> now, startedAt |-> NoTime,
     finishedAt |-> NoTime, errorMessage |-> Undefined, params |-> request]

\* ---------------------------------------------------------------- events
ProgressEvent(message, progress) ==
    [type |-> "progress", message |-> message, progress |-> progress,
     error |-> Undefined, totalItems |-> NoNumber, requestId |-> NoId, timestamp |-> NoTime]
DataEvent ==
    [type |-> "data", message |-> Undefined, progress |-> NoNumber,
     error |-> Undefined, totalItems |-> NoNumber, requestId |-> NoId, timestamp |-> NoTime]
CompleteEvent(totalItems) ==
    [type |-> "complete", message |-> Undefined, progress |-> NoNumber,
     error |-> Undefined, totalItems |-> totalItems, requestId |-> NoId, timestamp |-> NoTime]
ErrorEvent(error) ==
    [type |-> "error", message |-> Undefined, progress |-> NoNumber,
     error |-> error, totalItems |-> NoNumber, requestId |-> NoId, timestamp |-> NoTime]

\* handlers that also report their failures as error events, as the list
\* handlers do
HandlerEventsWithError ==
    { ProgressEvent("Loading Google Travel detail page...", 10), DataEvent,
      ErrorEvent("Failed to extract") }

\* events the handlers registered in siteHandlers raise through the sub-sink
\* (no requestId, no timestamp): their own progress checkpoints and data
HandlerEvents ==
    { ProgressEvent("Loading Google Travel detail page...", 10), DataEvent }

\* events a handler may hand to its StreamCallback, whose parameter type also
\* admits a full StreamEvent: a data event that carries a requestId of the
\* handler's own choosing
SuppliedId == <<"supplied by the handler", 0>>
SuppliedIdEvents == { [DataEvent EXCEPT !.requestId = SuppliedId] }

\* BaseCrawler.crawl emitEvent: stamp with this run's requestId and the time
emitEvent(o, event) ==
    [event EXCEPT !.requestId = randomUUID(o), !.timestamp = now]

\* BaseCrawler.crawl wrappedStreamCallback: keep the event's own requestId /
\* timestamp when it has one
wrappedStreamCallback(o, event) ==
    [event EXCEPT !.requestId = IF @ # NoId THEN @ ELSE randomUUID(o),
                  !.timestamp = IF @ # NoTime THEN @ ELSE now]

\* ---------------------------------------------------------------- sinks
\* handleStreamEvent that also folds a complete event into the status
handleStreamEventSetsDone(job, event) ==
    CASE event.type = "progress" ->
           [job EXCEPT !.progress = IF event.progress # NoNumber THEN event.progress ELSE @,
                       !.currentStep = IF event.message # Undefined THEN event.message ELSE @]
      [] event.type = "error" ->
           [job EXCEPT !.currentStep = event.error, !.errorMessage = event.error]
      [] event.type = "complete" ->
           [job EXCEPT !.status = "done", !.progress = 100, !.currentStep = "Completed"]
      [] OTHER -> job

\* CrawlJobService.handleStreamEvent, on the stored record
handleStreamEvent(job, event) ==
    CASE event.type = "progress" ->
           [job EXCEPT !.progress = IF event.progress # NoNumber THEN event.progress ELSE @,
                       !.currentStep = IF event.message # Undefined THEN event.message ELSE @]
      [] event.type = "error" ->
           [job EXCEPT !.currentStep = event.error, !.errorMessage = event.error]
      [] event.type = "complete" ->
           [job EXCEPT !.progress = 100, !.currentStep = "Completed"]
      [] OTHER -> job

\* res.end()
resEnd(res) == [res EXCEPT !.ended = TRUE]

\* handleCrawlStream sendEvent: res.write of one frame.  A write on a response
\* that was ended is not transmitted; the call is counted in lateWrites.
sendEvent(res, event) ==
    IF res.ended
    THEN [res EXCEPT !.lateWrites = @ + 1]
    ELSE [res EXCEPT !.frames = Append(@, event)]

RECURSIVE handleStreamEvents(_, _)
handleStreamEvents(job, events) ==
    IF events = <<>> THEN job
    ELSE handleStreamEvents(handleStreamEvent(job, Head(events)), Tail(events))

RECURSIVE sendEvents(_, _)
sendEvents(res, events) ==
    IF events = <<>> THEN res
    ELSE sendEvents(sendEvent(res, Head(events)), Tail(events))

\* a streamCallback that folds the events into every stored record
JobsSinkAllRecords(J, o, events) ==
    IF o[1] = "job" THEN [j \in DOMAIN J |-> handleStreamEvents(J[j], events)] ELSE J

\* onStream of a run: runJob's streamCallback for a job, the controller's
\* (event) => sendEvent(event) for a stream
JobsSink(J, o, events) ==
    IF o[1] = "job" THEN [J EXCEPT ![o[2]] = handleStreamEvents(@, events)] ELSE J
StreamsSink(S, o, events) ==
    IF o[1] = "stream" THEN [S EXCEPT ![o[2]] = sendEvents(@, events)] ELSE S
\* an onStream that collects what it is called with
CallsSink(C, o, events) ==
    IF o[1] = "call" THEN [C EXCEPT ![o[2]].events = @ \o events] ELSE C

\* ---------------------------------------------------------------- runs
\* one activation of crawl / crawlList / crawlDetail.  `terminal` lists the
\* complete and error events it raised, `persists` counts the calls of
\* PersistenceService.persist made with its result, `thrown` tells whether
\* its handler has thrown (recorded when `audit` is set).
NewRun(mode, request) ==
    [mode |-> mode, phase |-> "launch", attempt |-> 1, result |-> NoResult,
     emitted |-> 0, abandoned |-> 0, timeouts |-> 0, aemitted |-> 0,
     terminal |-> <<>>, persists |-> 0, thrown |-> FALSE, request |-> request]

\* continuation of the promise CrawlService.crawl returned, queued when it settles
Awaiter(o) ==
    CASE o[1] = "job" -> "runJob"
      [] o[1] = "stream" -> "stream"
      [] o[1] = "call" -> "call"
      [] OTHER -> "http"
Resolved(o, data) ==
    [k |-> Awaiter(o), o |-> o, ok |-> TRUE, data |-> data, error |-> Undefined]
\* a rejection whose reason is not an Error: the awaiting catch reads it as
\* 'Unknown error'
RejectedUnknown(o, error) ==
    [k |-> Awaiter(o), o |-> o, ok |-> FALSE, data |-> NoResult, error |-> "Unknown error"]
Rejected(o, error) ==
    [k |-> Awaiter(o), o |-> o, ok |-> FALSE, data |-> NoResult, error |-> error]
\* continuation of `await this.runJob(jobId)` in processQueue activation k
LoopResumed(k) ==
    [k |-> "processQueue", o |-> <<"loop", k>>, ok |-> TRUE, data |-> NoResult,
     error |-> Undefined]

Quiet == creating = 0 /\ micro = <<>>

\* submissions so far; once the request/response API is in use the bound
\* MaxRequests covers the submissions of both kinds
Load == Len(jobs) + Len(responses)

TypeOK ==
    /\ Len(jobs) <= MaxJobs
    /\ now \in 0..MaxClock
    /\ isProcessing \in BOOLEAN

Constructed ==
    /\ jobs = <<>>
    /\ results = [j \in {} |-> Item]
    /\ queue = <<>>
    /\ isProcessing = FALSE
    /\ loops = [k \in 1..MaxJobs |-> [pc |-> "off", cur |-> 0]]
    /\ runs = [o \in {} |-> NewRun("crawl", [category |-> "hotels", site |-> "googlemaps"])]
    /\ micro = <<>>
    /\ creating = 0
    /\ snapshots = <<>>
    /\ now = 0
    /\ streams = <<>>
    /\ responses = <<>>
    /\ calls = <<>>

Init == Constructed /\ audit = FALSE

\* the same initial state, with the history of handler throws kept
AuditInit == Constructed /\ audit = TRUE

\* ---------------------------------------------------------------- CrawlJobService
\* `{ ...job }`: a new object with the values of job's own fields; the value
\* of `params` is a reference to the object the stored record refers to
Spread(job) == [job EXCEPT !.params = [ref |-> job.jobId]]

\* what the holder of a returned object reads in it, in the registry J
Read(J, object) == [object EXCEPT !.params = J[object.params.ref].params]

\* getJob / getResult: read-only lookups
getJob(jobId) == IF jobId \in DOMAIN jobs THEN Spread(jobs[jobId]) ELSE Undefined
getResult(jobId) == IF jobId \in DOMAIN results THEN results[jobId] ELSE Undefined

\* BaseCrawler.crawl: handler lookup, before anything is allocated
crawlSupported(request) == request.site \in siteHandlers
\* BaseCrawler.crawlList / crawlDetail: the same lookup in their own tables
crawlListSupported(request) == request.site \in listHandlers
crawlDetailSupported(request) == request.site \in detailHandlers

\* every entry point looking its handler up in the siteHandlers table
SupportedBySiteTable(mode, request) == request.site \in siteHandlers

Supported(mode, request) ==
    CASE mode = "crawl" -> crawlSupported(request)
      [] mode = "list" -> crawlListSupported(request)
      [] OTHER -> crawlDetailSupported(request)

\* the Error thrown when the lookup finds no handler
UnsupportedError(mode) ==
    CASE mode = "crawl" -> UnsupportedSiteError
      [] mode = "list" -> UnsupportedListSiteError
      [] OTHER -> UnsupportedDetailSiteError

\* the Error thrown when crawler.run() left `result` unset
FailedError(mode) ==
    CASE mode = "crawl" -> FailedToCrawlError
      [] mode = "list" -> FailedToCrawlListError
      [] OTHER -> FailedToCrawlDetailError

\* message of the progress 100 event of requestHandler
CompletedMessage(mode) ==
    CASE mode = "crawl" -> "Crawl completed"
      [] mode = "list" -> "Crawl list completed"
      [] OTHER -> "Crawl detail completed"

\* what a handler of the mode's table returns
HandlerResults(mode) == IF mode = "list" THEN {EmptyList, ItemList} ELSE {Item}

\* totalItems of the complete event
totalItems(mode, result) ==
    CASE mode = "crawl" -> IF result \in {EmptyList, ItemList} THEN length(result) ELSE 1
      [] mode = "list" -> length(result)
      [] OTHER -> 1

\* BaseCrawler.crawl: the first event, emitted before `await crawler.run`
crawlStartEvents(o) == << emitEvent(o, ProgressEvent("Starting crawl...", 0)) >>

\* message of the progress 0 event of each entry point
StartingMessage(mode) ==
    CASE mode = "crawl" -> "Starting crawl..."
      [] mode = "list" -> "Starting list crawl..."
      [] OTHER -> "Starting detail crawl..."

\* crawl / crawlList / crawlDetail: the first event, emitted before crawler.run
startEvents(o, mode) == << emitEvent(o, ProgressEvent(StartingMessage(mode), 0)) >>

\* reading the head of the queue without removing it
peek(q) == [jobId |-> Head(q), queue |-> q]

\* Array.prototype.pop, in place of shift: the newest id first
pop(q) == [jobId |-> q[Len(q)], queue |-> SubSeq(q, 1, Len(q) - 1)]

\* `this.queue.shift()`: the oldest id and the remaining queue
shift(q) == [jobId |-> Head(q), queue |-> Tail(q)]

\* processQueue from the loop head (while ... shift ... await runJob), with the
\* synchronous part of runJob and of crawl up to its first await.  M is the
\* microtask queue left by the caller.
processQueueLoop(k, M) ==
    IF queue = <<>>
    THEN /\ isProcessing' = FALSE
         /\ loops' = [loops EXCEPT ![k] = [pc |-> "off", cur |-> 0]]
         /\ micro' = M
         /\ UNCHANGED <<jobs, queue, runs>>
    ELSE LET jobId == shift(queue).jobId
             o == JobOwner(jobId)
             started == [jobs EXCEPT ![jobId].status = "running",
                                     ![jobId].startedAt = now,
                                     ![jobId].currentStep = "Initializing crawler"]
         IN  /\ queue' = shift(queue).queue
             /\ isProcessing' = TRUE
             /\ loops' = [loops EXCEPT ![k] = [pc |-> "await", cur |-> jobId]]
             /\ IF crawlSupported(started[jobId].params)
                THEN /\ jobs' = JobsSink(started, o, crawlStartEvents(o))
                     /\ runs' = (o :> NewRun("crawl", started[jobId].params)) @@ runs
                     /\ micro' = M
                ELSE /\ jobs' = started
                     /\ runs' = runs
                     /\ micro' = Append(M, Rejected(o, UnsupportedSiteError))

\* processQueue without the isProcessing check
processQueueUnguarded(k, M) == processQueueLoop(k, M)

\* processQueue as called by createJob: returns at once when a loop is active
processQueue(k, M) ==
    IF isProcessing
    THEN /\ micro' = M
         /\ UNCHANGED <<jobs, queue, isProcessing, loops, runs>>
    ELSE processQueueLoop(k, M)

\* createJob up to `this.queue.push(jobId)`
createJob(request) ==
    /\ Quiet
    /\ Len(jobs) < MaxJobs
    /\ responses # <<>> => Load < MaxRequests
    /\ LET jobId == Len(jobs) + 1
       IN  /\ jobs' = Append(jobs, CrawlJobRecord(jobId, request))
           /\ queue' = Append(queue, jobId)
           /\ creating' = jobId
    /\ UNCHANGED <<results, isProcessing, loops, runs, micro, snapshots, now, streams, responses, audit, calls>>

\* createJob from `void this.processQueue()` to `return { ...job }`
createJobReturn ==
    /\ creating # 0
    /\ processQueue(creating, micro)
    /\ snapshots' = Append(snapshots, Spread(jobs'[creating]))
    /\ creating' = 0
    /\ UNCHANGED <<results, now, streams, responses, audit, calls>>

\* the value a caller of createJob writes into the object it was handed
CallerValue == "changed by the caller"

\* writes callers have made so far
Writes ==
    Cardinality({ i \in DOMAIN snapshots : snapshots[i].currentStep = CallerValue })
    + Cardinality({ j \in DOMAIN jobs : jobs[j].params.site = CallerValue })

\* a holder of the object createJob returned assigns one of its fields
\* (snapshot.currentStep = ...)
callerAssigns(i) ==
    /\ Quiet
    /\ i \in DOMAIN snapshots
    /\ Writes < MaxWrites
    /\ snapshots' = [snapshots EXCEPT ![i].currentStep = CallerValue]
    /\ UNCHANGED <<jobs, results, queue, isProcessing, loops, runs, micro, creating, now, streams, responses, audit, calls>>

\* a holder of the object createJob returned assigns a field of its params
\* (snapshot.params.site = ...): the object the stored record refers to
callerAssignsParams(i) ==
    /\ Quiet
    /\ i \in DOMAIN snapshots
    /\ Writes < MaxWrites
    /\ jobs' = [jobs EXCEPT ![snapshots[i].params.ref].params.site = CallerValue]
    /\ UNCHANGED <<results, queue, isProcessing, loops, runs, micro, creating, snapshots, now, streams, responses, audit, calls>>

\* runJob that puts a failed job back on the queue
runJobSettledRequeues ==
    /\ creating = 0
    /\ micro # <<>>
    /\ Head(micro).k = "runJob"
    /\ LET m == Head(micro)
           jobId == m.o[2]
           k == CHOOSE l \in 1..MaxJobs : loops[l].pc = "await" /\ loops[l].cur = jobId
       IN  /\ IF m.ok
              THEN /\ results' = (jobId :> m.data) @@ results
                   /\ jobs' = [jobs EXCEPT ![jobId].status = "done",
                                           ![jobId].progress = 100,
                                           ![jobId].currentStep = "Completed",
                                           ![jobId].finishedAt = now]
                   /\ queue' = queue
              ELSE /\ results' = results
                   /\ jobs' = [jobs EXCEPT ![jobId].status = "queued",
                                           ![jobId].errorMessage = m.error,
                                           ![jobId].currentStep = "Queued"]
                   /\ queue' = Append(queue, jobId)
           /\ micro' = Append(Tail(micro), LoopResumed(k))
    /\ UNCHANGED <<isProcessing, loops, runs, creating, snapshots, now, streams, responses, audit, calls>>

\* runJob whose catch rethrows, under a processQueue that does not catch: the
\* loop ends on the first failure and isProcessing stays set
runJobSettledRethrows ==
    /\ creating = 0
    /\ micro # <<>>
    /\ Head(micro).k = "runJob"
    /\ LET m == Head(micro)
           jobId == m.o[2]
           k == CHOOSE l \in 1..MaxJobs : loops[l].pc = "await" /\ loops[l].cur = jobId
       IN  /\ IF m.ok
              THEN /\ results' = (jobId :> m.data) @@ results
                   /\ jobs' = [jobs EXCEPT ![jobId].status = "done",
                                           ![jobId].progress = 100,
                                           ![jobId].currentStep = "Completed",
                                           ![jobId].finishedAt = now]
                   /\ micro' = Append(Tail(micro), LoopResumed(k))
              ELSE /\ results' = results
                   /\ jobs' = [jobs EXCEPT ![jobId].status = "error",
                                           ![jobId].errorMessage = m.error,
                                           ![jobId].finishedAt = now,
                                           ![jobId].currentStep = "Failed"]
                   /\ micro' = Tail(micro)
    /\ UNCHANGED <<queue, isProcessing, loops, runs, creating, snapshots, now, streams, responses, audit, calls>>

\* runJob after `await this.crawlService.crawl(...)`: the try / catch tails
runJobSettled ==
    /\ creating = 0
    /\ micro # <<>>
    /\ Head(micro).k = "runJob"
    /\ LET m == Head(micro)
           jobId == m.o[2]
           k == CHOOSE l \in 1..MaxJobs : loops[l].pc = "await" /\ loops[l].cur = jobId
       IN  /\ IF m.ok
              THEN /\ results' = (jobId :> m.data) @@ results
                   /\ jobs' = [jobs EXCEPT ![jobId].status = "done",
                                           ![jobId].progress = 100,
                                           ![jobId].currentStep = "Completed",
                                           ![jobId].finishedAt = now]
              ELSE /\ results' = results
                   /\ jobs' = [jobs EXCEPT ![jobId].status = "error",
                                           ![jobId].errorMessage = m.error,
                                           ![jobId].finishedAt = now,
                                           ![jobId].currentStep = "Failed"]
           /\ micro' = Append(Tail(micro), LoopResumed(k))
    /\ UNCHANGED <<queue, isProcessing, loops, runs, creating, snapshots, now, streams, responses, audit, calls>>

\* processQueue with an `if` in place of the `while`: it handles one job and
\* goes idle without looking at the queue again
processQueueResumedStops ==
    /\ creating = 0
    /\ micro # <<>>
    /\ Head(micro).k = "processQueue"
    /\ isProcessing' = FALSE
    /\ loops' = [loops EXCEPT ![Head(micro).o[2]] = [pc |-> "off", cur |-> 0]]
    /\ micro' = Tail(micro)
    /\ UNCHANGED <<jobs, results, queue, runs, creating, snapshots, now, streams, responses, audit, calls>>

\* processQueue after `await this.runJob(jobId)`: back to the loop head
processQueueResumed ==
    /\ creating = 0
    /\ micro # <<>>
    /\ Head(micro).k = "processQueue"
    /\ processQueueLoop(Head(micro).o[2], Tail(micro))
    /\ UNCHANGED <<results, creating, snapshots, now, streams, responses, audit, calls>>

\* ---------------------------------------------------------------- BaseCrawler.crawl
Emit(o, events) ==
    /\ jobs' = JobsSink(jobs, o, events)
    /\ streams' = StreamsSink(streams, o, events)
    /\ calls' = CallsSink(calls, o, events)

InPhase(o, phase) == Quiet /\ o \in DOMAIN runs /\ runs[o].phase = phase

\* a failed attempt of requestHandler: the crawler retries the request until
\* its attempts are used up, then crawler.run() resolves without a result
AttemptFailed(run) ==
    IF run.attempt < MaxAttempts
    THEN [run EXCEPT !.phase = "launch", !.attempt = @ + 1, !.emitted = 0]
    ELSE [run EXCEPT !.phase = "teardown"]

\* requestHandler is invoked: progress 10, then `await page.goto`
requestHandler(o) ==
    /\ InPhase(o, "launch")
    /\ Emit(o, << emitEvent(o, ProgressEvent("Loading page...", 10)) >>)
    /\ runs' = [runs EXCEPT ![o].phase = "goto"]
    /\ UNCHANGED <<results, queue, isProcessing, loops, micro, creating, snapshots, now, responses, audit>>

\* page.goto resolved: progress 30, then `await smartWait`
gotoResolved(o) ==
    /\ InPhase(o, "goto")
    /\ Emit(o, << emitEvent(o, ProgressEvent("Page loaded, extracting data...", 30)) >>)
    /\ runs' = [runs EXCEPT ![o].phase = "smartWait"]
    /\ UNCHANGED <<results, queue, isProcessing, loops, micro, creating, snapshots, now, responses, audit>>

\* page.goto rejected (navigation error or timeout): requestHandler rethrows
gotoRejected(o) ==
    /\ InPhase(o, "goto")
    /\ runs' = [runs EXCEPT ![o] = AttemptFailed(@)]
    /\ UNCHANGED <<jobs, streams, results, queue, isProcessing, loops, micro, creating, snapshots, now, responses, audit, calls>>

\* smartWait returned: progress 50, then `await handler(...)`
smartWait(o) ==
    /\ InPhase(o, "smartWait")
    /\ Emit(o, << emitEvent(o, ProgressEvent("Processing data...", 50)) >>)
    /\ runs' = [runs EXCEPT ![o].phase = "handler"]
    /\ UNCHANGED <<results, queue, isProcessing, loops, micro, creating, snapshots, now, responses, audit>>

\* the site handler raises an event through wrappedStreamCallback
handlerEmits(o, event) ==
    /\ InPhase(o, "handler")
    /\ runs[o].emitted < MaxHandlerEvents
    /\ Emit(o, << wrappedStreamCallback(o, event) >>)
    /\ runs' = [runs EXCEPT ![o].emitted = @ + 1]
    /\ UNCHANGED <<results, queue, isProcessing, loops, micro, creating, snapshots, now, responses, audit>>

\* `result = await handler(...)` returned: progress 100, requestHandler returns
handlerReturns(o) ==
    /\ InPhase(o, "handler")
    /\ Emit(o, << emitEvent(o, ProgressEvent(CompletedMessage(runs[o].mode), 100)) >>)
    /\ \E result \in HandlerResults(runs[o].mode) :
          runs' = [runs EXCEPT ![o].phase = "teardown", ![o].result = result]
    /\ UNCHANGED <<results, queue, isProcessing, loops, micro, creating, snapshots, now, responses, audit>>

\* the site handler threw: requestHandler logs and rethrows
handlerThrows(o) ==
    /\ InPhase(o, "handler")
    /\ runs' = [runs EXCEPT ![o] = [AttemptFailed(@) EXCEPT !.thrown = audit]]
    /\ UNCHANGED <<jobs, streams, results, queue, isProcessing, loops, micro, creating, snapshots, now, responses, audit, calls>>

\* the error event a list handler raises from its own catch block
HandlerErrorEvent == ErrorEvent("Unknown error occurred")

\* a list handler caught an error of its own: it raises an error event through
\* wrappedStreamCallback and returns []; requestHandler stores the result and
\* emits progress 100
handlerCatches(o) ==
    /\ InPhase(o, "handler")
    /\ runs[o].mode = "list"
    /\ Emit(o, << wrappedStreamCallback(o, HandlerErrorEvent),
                  emitEvent(o, ProgressEvent(CompletedMessage(runs[o].mode), 100)) >>)
    /\ runs' = [runs EXCEPT ![o].phase = "teardown", ![o].result = EmptyList]
    /\ UNCHANGED <<results, queue, isProcessing, loops, micro, creating, snapshots, now, responses, audit>>

RECURSIVE Timeouts(_)
Timeouts(owners) ==
    IF owners = {} THEN 0
    ELSE LET o == CHOOSE x \in owners : TRUE
         IN  runs[o].timeouts + Timeouts(owners \ {o})

\* requestHandlerTimeoutSecs elapsed while the handler is in flight: the
\* attempt fails, the handler's promise is abandoned but keeps running
handlerTimesOut(o) ==
    /\ InPhase(o, "handler")
    /\ Timeouts(DOMAIN runs) < MaxAbandoned
    /\ runs' = [runs EXCEPT ![o] = [AttemptFailed(@) EXCEPT !.abandoned = @ + 1,
                                                            !.timeouts = @ + 1]]
    /\ UNCHANGED <<jobs, streams, results, queue, isProcessing, loops, micro, creating, snapshots, now, responses, audit, calls>>

HasAbandoned(o) == Quiet /\ o \in DOMAIN runs /\ runs[o].abandoned > 0

\* an abandoned handler raises an event through its wrappedStreamCallback
abandonedHandlerEmits(o, event) ==
    /\ HasAbandoned(o)
    /\ runs[o].aemitted < MaxHandlerEvents
    /\ Emit(o, << wrappedStreamCallback(o, event) >>)
    /\ runs' = [runs EXCEPT ![o].aemitted = @ + 1]
    /\ UNCHANGED <<results, queue, isProcessing, loops, micro, creating, snapshots, now, responses, audit>>

\* an abandoned handler returns: its requestHandler sets result, progress 100
abandonedHandlerReturns(o) ==
    /\ HasAbandoned(o)
    /\ Emit(o, << emitEvent(o, ProgressEvent(CompletedMessage(runs[o].mode), 100)) >>)
    /\ \E result \in HandlerResults(runs[o].mode) :
          runs' = [runs EXCEPT ![o].abandoned = @ - 1, ![o].result = result]
    /\ UNCHANGED <<results, queue, isProcessing, loops, micro, creating, snapshots, now, responses, audit>>

\* an abandoned list handler caught an error of its own
abandonedHandlerCatches(o) ==
    /\ HasAbandoned(o)
    /\ runs[o].mode = "list"
    /\ Emit(o, << wrappedStreamCallback(o, HandlerErrorEvent),
                  emitEvent(o, ProgressEvent(CompletedMessage(runs[o].mode), 100)) >>)
    /\ runs' = [runs EXCEPT ![o].abandoned = @ - 1, ![o].result = EmptyList]
    /\ UNCHANGED <<results, queue, isProcessing, loops, micro, creating, snapshots, now, responses, audit>>

\* an abandoned handler throws (its page was closed)
abandonedHandlerThrows(o) ==
    /\ HasAbandoned(o)
    /\ runs' = [runs EXCEPT ![o].abandoned = @ - 1]
    /\ UNCHANGED <<jobs, streams, results, queue, isProcessing, loops, micro, creating, snapshots, now, responses, audit, calls>>

\* crawl / crawlList / crawlDetail after `await crawler.run(...)`: error +
\* throw, or complete + return.  On return CrawlService.crawl and crawlDetail
\* call persist and await it; CrawlService.crawlList returns the data.
crawlerRunResolved(o) ==
    /\ InPhase(o, "teardown")
    /\ LET run == [runs[o] EXCEPT !.attempt = 0, !.emitted = 0]
           error == emitEvent(o, ErrorEvent(FailedError(run.mode)))
           complete == emitEvent(o, CompleteEvent(totalItems(run.mode, run.result)))
       IN  IF run.result = NoResult
           THEN /\ Emit(o, << error >>)
                /\ runs' = [runs EXCEPT ![o] = [run EXCEPT !.phase = "over",
                                                           !.terminal = Append(@, error)]]
                /\ micro' = Append(micro, Rejected(o, FailedError(run.mode)))
           ELSE /\ Emit(o, << complete >>)
                /\ IF run.mode = "list"
                   THEN /\ runs' = [runs EXCEPT ![o] = [run EXCEPT !.phase = "over",
                                                                   !.terminal = Append(@, complete)]]
                        /\ micro' = Append(micro, Resolved(o, run.result))
                   ELSE /\ runs' = [runs EXCEPT ![o] = [run EXCEPT !.phase = "persist",
                                                                   !.terminal = Append(@, complete),
                                                                   !.persists = @ + 1]]
                        /\ micro' = micro
    /\ UNCHANGED <<results, queue, isProcessing, loops, creating, snapshots, now, responses, audit>>

\* CrawlService.crawl after `await this.persistenceService.persist(...)`: the
\* persist handler returned, or threw an error that persist logged; return data
persist(o) ==
    /\ InPhase(o, "persist")
    /\ runs' = [runs EXCEPT ![o].phase = "over"]
    /\ micro' = Append(micro, Resolved(o, runs[o].result))
    /\ UNCHANGED <<jobs, streams, results, queue, isProcessing, loops, creating, snapshots, now, responses, audit, calls>>

\* the persist handler threw an error of status 401: persist rethrows it, and
\* so does CrawlService.crawl
persistUnauthorized(o) ==
    /\ InPhase(o, "persist")
    /\ runs' = [runs EXCEPT ![o].phase = "over"]
    /\ micro' = Append(micro, Rejected(o, UnauthorizedError))
    /\ UNCHANGED <<jobs, streams, results, queue, isProcessing, loops, creating, snapshots, now, responses, audit, calls>>

\* ---------------------------------------------------------------- CrawlController
NewResponse == [ended |-> FALSE, frames |-> <<>>, lateWrites |-> 0, closed |-> FALSE]

\* handleCrawlStream for a payload that passed bodySchema: headers, close
\* listener, then the synchronous start of crawlService.crawl
handleCrawlStream(request) ==
    /\ Quiet
    /\ Len(streams) < MaxStreams
    /\ LET s == Len(streams) + 1
           o == StreamOwner(s)
       IN  IF crawlSupported(request)
           THEN /\ streams' = Append(streams, sendEvents(NewResponse, crawlStartEvents(o)))
                /\ runs' = (o :> NewRun("crawl", request)) @@ runs
                /\ micro' = micro
           ELSE /\ streams' = Append(streams, NewResponse)
                /\ runs' = runs
                /\ micro' = Append(micro, Rejected(o, UnsupportedSiteError))
    /\ UNCHANGED <<jobs, results, queue, isProcessing, loops, creating, snapshots, now, responses, audit, calls>>

\* a close listener that also aborts the run of the connection
reqCloseAborts(s) ==
    /\ Quiet
    /\ s \in DOMAIN streams
    /\ ~streams[s].closed
    /\ streams' = [streams EXCEPT ![s] = [resEnd(@) EXCEPT !.closed = TRUE]]
    /\ runs' = [o \in DOMAIN runs |->
                  IF o = StreamOwner(s) THEN [runs[o] EXCEPT !.phase = "aborted"] ELSE runs[o]]
    /\ UNCHANGED <<jobs, results, queue, isProcessing, loops, micro, creating, snapshots, now, responses, audit, calls>>

\* req.on('close'): the client went away; res.end()
reqClose(s) ==
    /\ Quiet
    /\ s \in DOMAIN streams
    /\ ~streams[s].closed
    /\ streams' = [streams EXCEPT ![s] = [resEnd(@) EXCEPT !.closed = TRUE]]
    /\ UNCHANGED <<jobs, results, queue, isProcessing, loops, runs, micro, creating, snapshots, now, responses, audit, calls>>

\* the frame the .catch of handleCrawlStream sends
catchErrorEvent(error) ==
    [ErrorEvent(error) EXCEPT !.requestId = <<"error", now>>, !.timestamp = now]

\* .then(() => res.end()) / .catch(error => { sendEvent(...); res.end() })
streamSettled ==
    /\ creating = 0
    /\ micro # <<>>
    /\ Head(micro).k = "stream"
    /\ LET m == Head(micro)
           s == m.o[2]
       IN  streams' = [streams EXCEPT ![s] =
                         IF m.ok THEN resEnd(@)
                         ELSE resEnd(sendEvent(@, catchErrorEvent(m.error)))]
    /\ micro' = Tail(micro)
    /\ UNCHANGED <<jobs, results, queue, isProcessing, loops, runs, creating, snapshots, now, responses, audit, calls>>

\* `res` of POST /crawl, /list, /detail before it is answered
NewHttpResponse(mode, request) ==
    [mode |-> mode, request |-> request, status |-> 0, success |-> FALSE,
     data |-> NoResult, error |-> Undefined]

\* handleCrawl / handleCrawlList / handleCrawlDetail for a payload that passed
\* bodySchema, up to its await: the synchronous start of the CrawlService call
\* (no onStream is passed)
handleRequest(mode, request) ==
    /\ Quiet
    /\ Load < MaxRequests
    /\ LET o == HttpOwner(Len(responses) + 1)
       IN  /\ responses' = Append(responses, NewHttpResponse(mode, request))
           /\ IF Supported(mode, request)
              THEN /\ runs' = (o :> NewRun(mode, request)) @@ runs
                   /\ micro' = micro
              ELSE /\ runs' = runs
                   /\ micro' = Append(micro, Rejected(o, UnsupportedError(mode)))
    /\ UNCHANGED <<jobs, results, queue, isProcessing, loops, creating, snapshots, now, streams, audit, calls>>

handleCrawl(request) == handleRequest("crawl", request)
handleCrawlList(request) == handleRequest("list", request)
handleCrawlDetail(request) == handleRequest("detail", request)

\* after the await: res.json({success: true, data}) or, from the catch,
\* res.status(400).json({success: false, error: error.message})
requestSettled ==
    /\ creating = 0
    /\ micro # <<>>
    /\ Head(micro).k = "http"
    /\ LET m == Head(micro)
           r == m.o[2]
       IN  responses' = [responses EXCEPT ![r] =
                           IF m.ok
                           THEN [@ EXCEPT !.status = 200, !.success = TRUE, !.data = m.data]
                           ELSE [@ EXCEPT !.status = 400, !.error = m.error]]
    /\ micro' = Tail(micro)
    /\ UNCHANGED <<jobs, results, queue, isProcessing, loops, runs, creating, snapshots, now, streams, audit, calls>>

\* a call of CrawlService with a collecting onStream, before it settles
NewCall(mode, request) ==
    [mode |-> mode, request |-> request, events |-> <<>>, settled |-> "pending",
     data |-> NoResult, error |-> Undefined]

\* CrawlService.crawl / crawlList / crawlDetail called with an onStream, up to
\* the first await of the BaseCrawler entry point: handler lookup, progress 0
callService(mode, request) ==
    /\ Quiet
    /\ Len(calls) < MaxCalls
    /\ LET c == Len(calls) + 1
           o == CallOwner(c)
       IN  IF Supported(mode, request)
           THEN /\ calls' = CallsSink(Append(calls, NewCall(mode, request)), o,
                                      startEvents(o, mode))
                /\ runs' = (o :> NewRun(mode, request)) @@ runs
                /\ micro' = micro
           ELSE /\ calls' = Append(calls, NewCall(mode, request))
                /\ runs' = runs
                /\ micro' = Append(micro, Rejected(o, UnsupportedError(mode)))
    /\ UNCHANGED <<jobs, results, queue, isProcessing, loops, creating, snapshots, now, streams, responses, audit>>

\* the promise CrawlService returned for the call settles: it returned data or
\* it threw
callSettled ==
    /\ creating = 0
    /\ micro # <<>>
    /\ Head(micro).k = "call"
    /\ LET m == Head(micro)
           c == m.o[2]
       IN  calls' = [calls EXCEPT ![c] =
                       IF m.ok
                       THEN [@ EXCEPT !.settled = "resolved", !.data = m.data]
                       ELSE [@ EXCEPT !.settled = "rejected", !.error = m.error]]
    /\ micro' = Tail(micro)
    /\ UNCHANGED <<jobs, results, queue, isProcessing, loops, runs, creating, snapshots, now, streams, responses, audit>>

\* a body of GET /result/:jobId
ResultResponse(code, status, error, errorMessage, data) ==
    [code |-> code, status |-> status, error |-> error,
     errorMessage |-> errorMessage, data |-> data]

\* getCrawlResult that goes to the results map without looking at the status
getCrawlResultUnchecked(jobId) ==
    IF getResult(jobId) = Undefined
    THEN ResultResponse(404, Undefined, "Result not found", Undefined, NoResult)
    ELSE ResultResponse(200, "done", Undefined, Undefined, getResult(jobId))

\* CrawlController.getCrawlResult for a jobId parameter
getCrawlResult(jobId) ==
    IF jobId \notin DOMAIN jobs
    THEN ResultResponse(404, Undefined, "Job not found", Undefined, NoResult)
    ELSE LET job == getJob(jobId)
         IN  IF job.status = "queued" \/ job.status = "running"
             THEN ResultResponse(202, job.status, Undefined, Undefined, NoResult)
             ELSE IF job.status = "error"
             THEN ResultResponse(500, "error", Undefined,
                                 IF job.errorMessage # Undefined THEN job.errorMessage
                                 ELSE "Unknown error", NoResult)
             ELSE IF getResult(jobId) = Undefined
             THEN ResultResponse(404, Undefined, "Result not found", Undefined, NoResult)
             ELSE ResultResponse(200, "done", Undefined, Undefined, getResult(jobId))

\* time passes between two macrotasks
Tick ==
    /\ Quiet
    /\ now < MaxClock
    /\ now' = now + 1
    /\ UNCHANGED <<jobs, results, queue, isProcessing, loops, runs, micro, creating, snapshots, streams, responses, audit, calls>>

\* ---------------------------------------------------------------- specifications
JobOwners == { JobOwner(j) : j \in 1..MaxJobs }
StreamOwners == { StreamOwner(s) : s \in 1..MaxStreams }
HttpOwners == { HttpOwner(r) : r \in 1..MaxRequests }
CallOwners == { CallOwner(c) : c \in 1..MaxCalls }
Owners == JobOwners \cup StreamOwners \cup HttpOwners \cup CallOwners

RunStep(o) ==
    \/ requestHandler(o)
    \/ gotoResolved(o)
    \/ gotoRejected(o)
    \/ smartWait(o)
    \/ \E event \in HandlerEvents : handlerEmits(o, event)
    \/ handlerReturns(o)
    \/ handlerThrows(o)
    \/ handlerTimesOut(o)
    \/ crawlerRunResolved(o)
    \/ persist(o)
    \/ persistUnauthorized(o)

AbandonedStep(o) ==
    \/ \E event \in HandlerEvents : abandonedHandlerEmits(o, event)
    \/ abandonedHandlerReturns(o)
    \/ abandonedHandlerThrows(o)

\* the job API: POST /job and the queue worker
Next ==
    \/ \E request \in Requests : createJob(request)
    \/ createJobReturn
    \/ runJobSettled
    \/ processQueueResumed
    \/ \E o \in JobOwners : RunStep(o)
    \/ \E o \in JobOwners : AbandonedStep(o)
    \/ Tick

Spec == Init /\ [][Next]_vars

\* the job API, with the history of handler throws
AuditSpec == AuditInit /\ [][Next]_vars

\* the stream API: POST /stream
StreamNext ==
    \/ \E request \in Requests : handleCrawlStream(request)
    \/ \E s \in 1..MaxStreams : reqClose(s)
    \/ streamSettled
    \/ \E o \in StreamOwners : RunStep(o)
    \/ \E o \in StreamOwners : AbandonedStep(o)
    \/ Tick

StreamSpec == Init /\ [][StreamNext]_vars

\* the request/response API: POST /crawl, /list, /detail
HttpNext ==
    \/ \E request \in HttpRequests : handleCrawl(request)
    \/ \E request \in HttpRequests : handleCrawlList(request)
    \/ \E request \in HttpRequests : handleCrawlDetail(request)
    \/ requestSettled
    \/ \E o \in HttpOwners : RunStep(o)
    \/ \E o \in HttpOwners : AbandonedStep(o)
    \/ \E o \in HttpOwners : handlerCatches(o)
    \/ \E o \in HttpOwners : abandonedHandlerCatches(o)
    \/ Tick

HttpSpec == Init /\ [][HttpNext]_vars

\* the three entry points of CrawlService called with a collecting onStream
CallNext ==
    \/ \E mode \in Modes, request \in HttpRequests : callService(mode, request)
    \/ callSettled
    \/ \E o \in CallOwners : RunStep(o)
    \/ \E o \in CallOwners : AbandonedStep(o)
    \/ \E o \in CallOwners : handlerCatches(o)
    \/ \E o \in CallOwners : abandonedHandlerCatches(o)
    \/ \E o \in CallOwners, event \in SuppliedIdEvents : handlerEmits(o, event)
    \/ Tick

CallSpec == Init /\ [][CallNext]_vars

\* the stream API on a process whose registry has served three submissions:
\* job 1 is done, job 2 is running and job 3 waits in the queue
ServedRequest == [category |-> "hotels", site |-> "googlemaps"]

ServerInit ==
    /\ now = 0
    /\ jobs = << [CrawlJobRecord(1, ServedRequest) EXCEPT
                     !.status = "done", !.progress = 100, !.currentStep = "Completed",
                     !.startedAt = 0, !.finishedAt = 0],
                 [CrawlJobRecord(2, ServedRequest) EXCEPT
                     !.status = "running", !.currentStep = "Starting crawl...",
                     !.startedAt = 0],
                 CrawlJobRecord(3, ServedRequest) >>
    /\ results = (1 :> Item)
    /\ queue = << 3 >>
    /\ isProcessing = TRUE
    /\ loops = [k \in 1..MaxJobs |->
                  IF k = 2 THEN [pc |-> "await", cur |-> 2] ELSE [pc |-> "off", cur |-> 0]]
    /\ runs = (JobOwner(1) :> [NewRun("crawl", ServedRequest) EXCEPT
                                  !.phase = "over", !.attempt = 0, !.result = Item,
                                  !.terminal = << emitEvent(JobOwner(1), CompleteEvent(1)) >>,
                                  !.persists = 1])
              @@ (JobOwner(2) :> NewRun("crawl", ServedRequest))
    /\ micro = <<>>
    /\ creating = 0
    /\ snapshots = << Spread([CrawlJobRecord(1, ServedRequest) EXCEPT
                          !.status = "running", !.currentStep = "Starting crawl...",
                          !.startedAt = 0]),
                      Spread([CrawlJobRecord(2, ServedRequest) EXCEPT
                          !.status = "running", !.currentStep = "Starting crawl...",
                          !.startedAt = 0]),
                      Spread(CrawlJobRecord(3, ServedRequest)) >>
    /\ streams = <<>>
    /\ responses = <<>>
    /\ audit = FALSE
    /\ calls = <<>>

\* every awaited I/O of a stream's run completes and the continuation of the
\* controller's promise runs
StreamFairness ==
    /\ WF_vars(streamSettled)
    /\ \A o \in StreamOwners : WF_vars(RunStep(o))

ServerSpec == ServerInit /\ [][StreamNext]_vars /\ StreamFairness

\* the queue worker and the callers that hold the objects createJob returned
\* for the three submissions of ServerInit, and write into them
SnapshotNext ==
    \/ runJobSettled
    \/ processQueueResumed
    \/ \E o \in JobOwners : RunStep(o)
    \/ \E o \in JobOwners : AbandonedStep(o)
    \/ \E i \in 1..MaxJobs : callerAssigns(i)
    \/ \E i \in 1..MaxJobs : callerAssignsParams(i)
    \/ Tick

SnapshotSpec == ServerInit /\ [][SnapshotNext]_vars

\* the job API and the request/response API served by the same process
EntryNext ==
    \/ \E request \in Requests : createJob(request)
    \/ createJobReturn
    \/ runJobSettled
    \/ processQueueResumed
    \/ \E request \in HttpRequests : handleCrawl(request)
    \/ \E request \in HttpRequests : handleCrawlList(request)
    \/ \E request \in HttpRequests : handleCrawlDetail(request)
    \/ requestSettled
    \/ \E o \in JobOwners \cup HttpOwners : RunStep(o)
    \/ \E o \in JobOwners \cup HttpOwners : AbandonedStep(o)
    \/ \E o \in HttpOwners : handlerCatches(o)
    \/ \E o \in HttpOwners : abandonedHandlerCatches(o)
    \/ Tick

EntrySpec == Init /\ [][EntryNext]_vars

\* the worker's scheduling: a continuation on the microtask queue runs, the
\* createJob frame on the stack returns, and every awaited I/O of a run that
\* the worker invoked completes (a run returns or throws)
JobFairness ==
    /\ WF_vars(createJobReturn)
    /\ WF_vars(runJobSettled)
    /\ WF_vars(processQueueResumed)
    /\ \A o \in JobOwners : WF_vars(RunStep(o))

LiveSpec == Spec /\ JobFairness

\* ---------------------------------------------------------------- properties
Terminal == {"done", "error"}
Running == { j \in DOMAIN jobs : jobs[j].status = "running" }
ActiveLoops == { k \in DOMAIN loops : loops[k].pc # "off" }
IsTerminalFrame(frame) == frame.type \in {"complete", "error"}
TerminalFrames(res) == { i \in DOMAIN res.frames : IsTerminalFrame(res.frames[i]) }

\* C1: whenever createJob returns, the returned snapshot has status queued and
\* progress 0, and so has the stored record a getJob reads right after it
C1_SubmitReturnsQueued ==
    [][createJobReturn =>
         LET jobId == creating
         IN  /\ snapshots'[jobId].status = "queued"
             /\ snapshots'[jobId].progress = 0
             /\ jobs'[jobId].status = "queued"
             /\ jobs'[jobId].progress = 0]_vars

\* C2: at most one job is running and at most one processQueue loop is active
C2_SingleFlight ==
    /\ Cardinality(Running) <= 1
    /\ Cardinality(ActiveLoops) <= 1

\* a createJob call has returned while the worker was busy: one job runs,
\* another waits in the queue
C2_Witness ==
    /\ Quiet
    /\ isProcessing
    /\ Running # {}
    /\ queue # <<>>

StatusStep(from, to) ==
    \/ to = from
    \/ from = "queued" /\ to = "running"
    \/ from = "running" /\ to \in Terminal

\* C3: a record is stored as queued and its status then only moves
\* queued -> running -> done or error
C3_StatusTransitions ==
    [][/\ \A j \in DOMAIN jobs : StatusStep(jobs[j].status, jobs'[j].status)
       /\ \A j \in DOMAIN jobs' \ DOMAIN jobs : jobs'[j].status = "queued"]_vars

\* one job went through to done and another through to error
C3_Witness ==
    /\ \E j \in DOMAIN jobs : jobs[j].status = "done"
    /\ \E j \in DOMAIN jobs : jobs[j].status = "error"

\* C4: once a record is done or error no field of it changes again
C4_TerminalRecordFrozen ==
    [][\A j \in DOMAIN jobs : jobs[j].status \in Terminal => jobs'[j] = jobs[j]]_vars

\* C5: between two turns of the event loop, getResult answers exactly for the
\* jobs whose status is done
C5_ResultIffDone ==
    Quiet => \A j \in DOMAIN jobs :
                 (getResult(j) # Undefined) <=> (getJob(j).status = "done")

\* a done job with its result next to a failed job without one
C5_Witness ==
    /\ Quiet
    /\ \E j \in DOMAIN jobs : jobs[j].status = "done" /\ getResult(j) = Item
    /\ \E j \in DOMAIN jobs : jobs[j].status = "error" /\ getResult(j) = Undefined

\* C6: a job leaves queued only after every job submitted before it is done or error
C6_FifoStart ==
    \A a, b \in DOMAIN jobs :
        (a < b /\ jobs[b].status # "queued") => jobs[a].status \in Terminal

\* the first job failed at once on an unsupported site, the second runs, a
\* third submitted meanwhile waits
C6_Witness ==
    /\ Len(jobs) = 3
    /\ jobs[1].status = "error" /\ ~crawlSupported(jobs[1].params)
    /\ jobs[2].status = "running"
    /\ jobs[3].status = "queued"

\* C7: every submitted job eventually reaches done or error
C7_EveryJobSettles ==
    \A j \in 1..MaxJobs :
        (j \in DOMAIN jobs) ~> (j \in DOMAIN jobs /\ jobs[j].status \in Terminal)

\* a job submitted while the first one was running reached done after the
\* first one failed
C7_Witness ==
    /\ Len(jobs) >= 2
    /\ jobs[1].status = "error"
    /\ jobs[2].status = "done"
    /\ jobs[1].startedAt < jobs[2].createdAt

\* C8: all frames written to one stream carry the same requestId
C8_OneRunIdPerStream ==
    \A s \in DOMAIN streams :
        \A i, j \in DOMAIN streams[s].frames :
            streams[s].frames[i].requestId = streams[s].frames[j].requestId

\* C9: a stream whose client stays connected never gets a second terminal
\* frame or a frame after the terminal one, and when the server has ended it
\* exactly one terminal frame was written, as the last frame
C9_OneTerminalFrame ==
    \A s \in DOMAIN streams :
        LET res == streams[s]
        IN  ~res.closed =>
              /\ Cardinality(TerminalFrames(res)) <= 1
              /\ TerminalFrames(res) \subseteq {Len(res.frames)}
              /\ res.ended => Cardinality(TerminalFrames(res)) = 1

\* C10: once the client has disconnected, no event of the run makes the
\* server call res.write on that response again
C10_NoWriteAfterDisconnect ==
    [][\A s \in DOMAIN streams :
         streams[s].closed =>
           /\ streams'[s].lateWrites = streams[s].lateWrites
           /\ streams'[s].frames = streams[s].frames]_vars

\* C11: a client's disconnect leaves the registry (job records, results,
\* queue), the runs and the pending continuations as they were, and the run
\* of a connection that was closed while it was in flight still ends, having
\* raised its complete or error event.
RunOver(o) == o \in DOMAIN runs /\ runs[o].phase = "over" /\ runs[o].terminal # <<>>
C11_DisconnectLeavesRun ==
    /\ [][(\E s \in 1..MaxStreams : reqClose(s))
            => UNCHANGED <<jobs, results, queue, isProcessing, runs, micro>>]_vars
    /\ \A s \in 1..MaxStreams :
         (s \in DOMAIN streams /\ streams[s].closed /\ StreamOwner(s) \in DOMAIN runs)
            ~> RunOver(StreamOwner(s))
\* the client left before the run's terminal event, which was then written to
\* the ended response, next to a registry that holds records, a result and a
\* queue entry
C11_Witness ==
    /\ 1 \in DOMAIN streams
    /\ streams[1].closed
    /\ RunOver(StreamOwner(1))
    /\ \A i \in DOMAIN streams[1].frames : ~IsTerminalFrame(streams[1].frames[i])
    /\ streams[1].lateWrites > 0
    /\ jobs # <<>> /\ queue # <<>> /\ DOMAIN results # {}

\* C12: a job whose site has no handler in siteHandlers never has a crawler
\* (no run is ever allocated for it), never has a Result, is settled in the
\* macrotask that started it and ends as error with the unsupported-site
\* message; likewise a POST /crawl, /list or /detail whose site is missing from
\* that entry point's table allocates no run and is answered with that
\* entry point's unsupported-site error.
Registered(mode) ==
    CASE mode = "crawl" -> siteHandlers
      [] mode = "list" -> listHandlers
      [] OTHER -> detailHandlers
Shape(frame) == <<frame.type, frame.progress, frame.totalItems>>
Shapes(frames) == [i \in DOMAIN frames |-> Shape(frames[i])]
DataFrames(res) == { i \in DOMAIN res.frames : res.frames[i].type = "data" }
CaughtFrames(res) == { i \in DOMAIN res.frames : res.frames[i].requestId[1] = "error" }
SingleItemOrder ==
    << <<"progress", 0, NoNumber>>, <<"progress", 10, NoNumber>>,
       <<"progress", 30, NoNumber>>, <<"progress", 50, NoNumber>>,
       <<"data", NoNumber, NoNumber>>, <<"progress", 100, NoNumber>>,
       <<"complete", NoNumber, 1>> >>
C13_SingleItemEventOrder ==
    \A s \in DOMAIN streams :
      ( /\ streams[s].ended
        /\ ~streams[s].closed
        /\ CaughtFrames(streams[s]) = {}
        /\ Cardinality(DataFrames(streams[s])) = 1 )
      => /\ Shapes(streams[s].frames) = SingleItemOrder
         /\ streams[s].lateWrites = 0

\* C14: a job whose handler threw during its run and whose run is over has
\* been sent exactly one error event and no complete event, and the job is
\* error with an errorMessage and without a Result.
C14_ThrowingHandlerFailsJob ==
    \A j \in DOMAIN jobs :
      LET o == JobOwner(j)
      IN  ( /\ o \in DOMAIN runs
            /\ runs[o].thrown
            /\ runs[o].phase = "over"
            /\ jobs[j].status \in Terminal )
          => /\ Len(runs[o].terminal) = 1
             /\ runs[o].terminal[1].type = "error"
             /\ jobs[j].status = "error"
             /\ jobs[j].errorMessage # Undefined
             /\ j \notin DOMAIN results

\* C15: every run has called PersistenceService.persist exactly once if it
\* has raised its complete event and not at all otherwise (so never before
\* complete, and never for a run that failed).
Completes(run) == { i \in DOMAIN run.terminal : run.terminal[i].type = "complete" }
C15_PersistOncePerSuccess ==
    \A o \in DOMAIN runs :
      runs[o].persists = IF Completes(runs[o]) # {} THEN 1 ELSE 0

\* C16: for every job id, known or not, GET /result answers by the job's
\* state alone: 404 Job not found for an unknown id, 202 with the status for
\* a queued or running job, 500 with the errorMessage that runJob captured for
\* an error job, 200 with the stored Result for a done job; a done job is
\* never answered Result not found.
C16_PollResultTotal ==
    \A jobId \in 1..(MaxJobs + 1) :
      LET response == getCrawlResult(jobId)
      IN  IF jobId \notin DOMAIN jobs
          THEN response.code = 404 /\ response.error = "Job not found"
          ELSE CASE jobs[jobId].status \in {"queued", "running"} ->
                      response.code = 202 /\ response.status = jobs[jobId].status
                 [] jobs[jobId].status = "error" ->
                      /\ response.code = 500
                      /\ jobs[jobId].errorMessage # Undefined
                      /\ response.errorMessage = jobs[jobId].errorMessage
                 [] jobs[jobId].status = "done" ->
                      /\ response.code = 200
                      /\ jobId \in DOMAIN results
                      /\ response.data = results[jobId]
                      /\ response.error # "Result not found"
\* the four answers in one state: job 1 done, job 2 error, job 3 pending and
\* id 4 unknown
C16_Witness ==
    /\ Len(jobs) = MaxJobs
    /\ getCrawlResult(1).code = 200
    /\ getCrawlResult(2).code = 500
    /\ getCrawlResult(3).code = 202
    /\ getCrawlResult(MaxJobs + 1).code = 404

\* C17: between two macrotasks (when a poll can read the registry) no record
\* with status queued, running or done carries an errorMessage, and neither
\* does any snapshot createJob returned.
C17_ErrorMessageOnlyOnError ==
    /\ Quiet => \A j \in DOMAIN jobs :
                  jobs[j].errorMessage # Undefined => jobs[j].status = "error"
    /\ \A i \in DOMAIN snapshots :
         snapshots[i].errorMessage # Undefined => snapshots[i].status = "error"
\* a poll can read an error record with its message next to a done record
\* and a running record without one
C17_Witness ==
    /\ Quiet
    /\ \E j \in DOMAIN jobs : jobs[j].status = "error" /\ jobs[j].errorMessage = FailedToCrawlError
    /\ \E j \in DOMAIN jobs : jobs[j].status = "done" /\ jobs[j].errorMessage = Undefined
    /\ \E j \in DOMAIN jobs : jobs[j].status = "running" /\ jobs[j].errorMessage = Undefined

\* C18 (as stated): every error job has an errorMessage, and its run has
\* raised an error event that carries that same message.
ErrorEvents(run) == { i \in DOMAIN run.terminal : run.terminal[i].type = "error" }
CallerStep ==
    \E i \in 1..MaxJobs : callerAssigns(i) \/ callerAssignsParams(i)
C19_SnapshotIsDefensiveCopy ==
    [][ /\ ~CallerStep =>
             \A i \in DOMAIN snapshots :
               Read(jobs', snapshots'[i]) = Read(jobs, snapshots[i])
        /\ CallerStep => jobs' = jobs ]_vars

Types(events) == { events[i].type : i \in DOMAIN events }
C21_OneKindOfTerminalEvent ==
    \A c \in DOMAIN calls :
      LET types == Types(calls[c].events)
      IN  /\ ~ ("complete" \in types /\ "error" \in types)
          /\ calls[c].settled = "resolved" => ("complete" \in types /\ "error" \notin types)
          /\ calls[c].settled = "rejected" => "complete" \notin types

\* C22: a call whose run is over with an empty collection as the handler's
\* result was handed an error event and no complete event, and it threw:
\* it never returned the empty result.
C22_EmptyResultFails ==
    \A c \in DOMAIN calls :
      LET o == CallOwner(c)
      IN  (o \in DOMAIN runs /\ runs[o].phase = "over" /\ runs[o].result = EmptyList)
          => /\ "error" \in Types(calls[c].events)
             /\ "complete" \notin Types(calls[c].events)
             /\ calls[c].settled # "resolved"
             /\ Quiet => calls[c].settled = "rejected"

\* C23: every event a call's onStream was handed carries the requestId of
\* that call's run, whatever requestId the handler put on the events it raised.
C23_EventsCarryRunId ==
    \A c \in DOMAIN calls :
      \A i \in DOMAIN calls[c].events :
        calls[c].events[i].requestId = randomUUID(CallOwner(c))

\* C24: no step moves a run to an earlier phase: a run only advances from the
\* invocation of requestHandler through navigation and extraction to its end,
\* so requestHandler (progress 10, page.goto, progress 30, the handler) is
\* never entered a second time within one run.
PhaseRank(phase) ==
    CASE phase = "launch" -> 0
      [] phase = "goto" -> 1
      [] phase = "smartWait" -> 2
      [] phase = "handler" -> 3
      [] phase = "teardown" -> 4
      [] phase = "persist" -> 5
      [] OTHER -> 6
C24_RunNeverGoesBack ==
    [][\A o \in DOMAIN runs :
         /\ o \in DOMAIN runs'
         /\ PhaseRank(runs'[o].phase) >= PhaseRank(runs[o].phase)]_vars

\* C25: a step of job A's processing (a step of its run, of a handler its run
\* abandoned, or the settling of runJob for A) leaves the record and the
\* result of every other job, and the queue, as they were.
ProcessingOf(a) ==
    \/ RunStep(JobOwner(a))
    \/ AbandonedStep(JobOwner(a))
    \/ runJobSettled /\ Head(micro).o = JobOwner(a)
C25_JobIsolation ==
    [][\A a \in DOMAIN jobs :
         ProcessingOf(a) =>
           /\ \A b \in DOMAIN jobs \ {a} : jobs'[b] = jobs[b]
           /\ DOMAIN results' \ {a} = DOMAIN results \ {a}
           /\ \A b \in DOMAIN results \ {a} : results'[b] = results[b]
           /\ queue' = queue]_vars
\* job 1 failed in its run and job 2 went through to done while job 3, which
\* was submitted meanwhile, still waits untouched at the head of the queue
C25_Witness ==
    /\ Len(jobs) = 3
    /\ creating = 0
    /\ jobs[1].status = "error" /\ jobs[1].errorMessage = FailedToCrawlError
    /\ jobs[2].status = "done" /\ 2 \in DOMAIN results
    /\ jobs[3].status = "queued" /\ jobs[3].progress = 0 /\ jobs[3].currentStep = "Queued"
    /\ queue = << 3 >>
    /\ 1 \notin DOMAIN results

\* C27: between two turns of the event loop, when isProcessing is false the
\* queue is empty and no job is queued or running; and when some job is
\* queued or running, isProcessing is set and one processQueue loop is
\* awaiting the run of a running job, which has not ended yet.
Pending == { j \in DOMAIN jobs : jobs[j].status \in {"queued", "running"} }
C27_NoJobStranded ==
    Quiet =>
      /\ ~isProcessing => (queue = <<>> /\ Pending = {})
      /\ (Pending # {} \/ queue # <<>>) =>
           /\ isProcessing
           /\ \E k \in ActiveLoops :
                /\ loops[k].pc = "await"
                /\ jobs[loops[k].cur].status = "running"
                /\ JobOwner(loops[k].cur) \in DOMAIN runs
                /\ runs[JobOwner(loops[k].cur)].phase # "over"
\* the worker went idle after it had handled every submission, the last one
\* having been submitted while an earlier job was running
C27_Witness ==
    /\ Quiet
    /\ ~isProcessing
    /\ Len(jobs) = MaxJobs
    /\ Pending = {}
    /\ jobs[MaxJobs].createdAt < jobs[MaxJobs].startedAt
    /\ \E j \in DOMAIN jobs : jobs[j].status = "error"

\* C28: the queue always holds exactly the ids of the jobs whose status is
\* queued, each once and in submission order; a job starts running only as
\* the head of the queue, which is removed in the same step, and an id that
\* has left the queue never enters it again.
Ids(q) == { q[i] : i \in DOMAIN q }
C28_QueueIsTheQueuedJobs ==
    /\ [](/\ Ids(queue) = { j \in DOMAIN jobs : jobs[j].status = "queued" }
          /\ \A i, k \in DOMAIN queue : i < k => queue[i] < queue[k])
    /\ [][\A j \in DOMAIN jobs :
            /\ (jobs[j].status # "running" /\ jobs'[j].status = "running") =>
                 (jobs[j].status = "queued" /\ queue # <<>> /\ Head(queue) = j
                  /\ queue' = Tail(queue))
            /\ j \notin Ids(queue) => j \notin Ids(queue')]_vars
\* the first job failed in its run and left the queue for good while the two
\* jobs submitted meanwhile wait in the order of their submission
C28_Witness ==
    /\ Len(jobs) = 3
    /\ jobs[1].status = "error" /\ JobOwner(1) \in DOMAIN runs
    /\ queue = << 2, 3 >>
    /\ jobs[2].status = "queued" /\ jobs[3].status = "queued"

\* C29: no step lowers the progress of a stored record or takes it out of
\* 0..100.
C29_ProgressMonotone ==
    [][\A j \in DOMAIN jobs :
         /\ jobs'[j].progress >= jobs[j].progress
         /\ jobs'[j].progress \in 0..100]_vars

\* C30: between two turns of the event loop, a stored record that shows
\* progress 100 together with currentStep 'Completed' has status done and a
\* stored result.
C30_CompletedMeansDone ==
    Quiet => \A j \in DOMAIN jobs :
               (jobs[j].progress = 100 /\ jobs[j].currentStep = "Completed")
                 => (jobs[j].status = "done" /\ j \in DOMAIN results)

====
